---- MODULE Spec2Model ----
(***************************************************************************)
(* Violentproxy proxy engine (Violentengine.js): the per-request handler   *)
(* `engine`, the upstream response callbacks it registers, and `finalize`. *)
(* Each request of Reqs has its own localReq / localRes / request /        *)
(* remoteRes objects; the process (and the uncaughtException handler that  *)
(* re-throws) is shared by all of them.                                    *)
(***************************************************************************)
EXTENDS Integers, Sequences, FiniteSets, TLC

\* ------------------------------------------------------------- bounds
\* Most 'data' events one upstream response delivers.
MaxChunks == 2

\* In-flight client requests of the process.
Reqs == {1, 2}

\* ------------------------------------------------------------- values
Absent == "absent"          \* a header that is not in the mapping
NoHeaders == [none |-> TRUE] \* no header mapping (yet)
\* no uncaught exception so far
NoFault == [by |-> 0, err |-> "none"]

\* Request targets as character sequences.  Node's HTTP parser hands the
\* handler origin-form ("/..."), asterisk-form ("*") and absolute-form
\* ("scheme://...") targets only.
RelUrl   == <<"/", "a">>
HttpUrl  == <<"h", "t", "t", "p", ":", "/", "/", "a">>
HttpsUrl == <<"h", "t", "t", "p", "s", ":", "/", "/", "a">>
HttpxUrl == <<"h", "t", "t", "p", "x", ":", "/", "/", "a">>
FtpUrl   == <<"f", "t", "p", ":", "/", "/", "a">>
StarUrl  == <<"*">>
Urls == {RelUrl, StarUrl, HttpUrl, HttpsUrl, HttpxUrl, FtpUrl}

\* String.prototype.startsWith
StartsWith(s, p) == Len(s) >= Len(p) /\ SubSeq(s, 1, Len(p)) = p

\* An absolute URL has a scheme: a ":" before any "/".
IsAbsolute(u) ==
    \E i \in 1..Len(u) : u[i] = ":" /\ \A j \in 1..(i - 1) : u[j] # "/"

\* url.parse(u).protocol: the scheme with its colon, null for a relative URL.
UrlProtocol(u) ==
    IF IsAbsolute(u)
    THEN LET i == CHOOSE k \in 1..Len(u) : u[k] = ":" /\ \A j \in 1..(k - 1) : u[j] # ":"
         IN  SubSeq(u, 1, i)
    ELSE <<>>

\* exports.requestResult, and a value outside the enumeration
Allow == 0
Empty == 1
Deny == 2
Redirect == 3
Unexpected == Redirect + 1
PolicyResults == {Allow, Empty, Deny, Redirect, Unexpected}
NoResult == Allow - 1       \* the requestPatchingProvider was not called

\* What a requestPatchingProvider may do to the header mapping it is given.
RequestEdits == {"none", "setAcceptEncoding", "addHeader"}

\* Header mapping of a client request: accept-encoding and one more header.
ClientHeaders == {[ae |-> a, x |-> Absent] : a \in {Absent, "br"}}

\* Upstream bytes: 31 opens a compressed stream, 72 is the text "<head>".
Bytes == {31, 72}

\* Upstream response headers.
ContentEncodings == {Absent, "gzip", "deflate", "br"}
ContentLengths == {Absent, "len"}

\* Installed responsePatchingProvider: the example one, or one that also
\* edits the two headers the engine owns.
ResponseProviders == {"example", "editsHeaders"}

ServerHeaders == [ct |-> "text/plain", server |-> "Violentproxy Proxy Server"]

\* ------------------------------------------------------------- state
VARIABLES
    phase,       \* per request: where the request is in its life
    localReq,    \* per request: [url, headers, aborted]
    localRes,    \* per request: the client response object
    options,     \* per request: what was given to http(s).request
    remoteRes,   \* per request: upstream response object or NoRes
    data,        \* per request: chunks accumulated by the 'data' handler
    calls,       \* per request: how often hooks / writeHead / unzip ran
    requestResult,   \* per request: what the requestPatchingProvider returned
    responseText,    \* per request: the text finalize was called with
    patchedHeaders,  \* per request: localReq.headers as the request provider left them
    steps,           \* per request: the steps of the request, in the order taken
    responsePatchingProvider,   \* the installed response hook
    fault        \* the uncaught exception that ended the process, or NoFault

vars == <<phase, localReq, localRes, options, remoteRes, data, calls,
          requestResult, responseText, patchedHeaders, steps,
          responsePatchingProvider, fault>>

NoResponseYet == [headersSent |-> FALSE, finished |-> FALSE, statusCode |-> 0,
                  statusMessage |-> "", headers |-> NoHeaders, body |-> <<>>,
                  onWire |-> FALSE]

NoOptions == [protocol |-> <<>>, transport |-> "none", headers |-> NoHeaders,
              aborted |-> FALSE]

\* no upstream response object yet
NoRes == [statusCode |-> 0, statusMessage |-> "", headers |-> NoHeaders,
          rawHeaders |-> NoHeaders, errored |-> FALSE, aborted |-> FALSE]

NoCalls == [requestPatch |-> 0, responsePatch |-> 0, writeHead |-> 0, unzip |-> 0]

Init ==
    /\ phase = [r \in Reqs |-> "new"]
    /\ localReq = [r \in Reqs |-> [url |-> <<>>, headers |-> NoHeaders, aborted |-> FALSE]]
    /\ localRes = [r \in Reqs |-> NoResponseYet]
    /\ options = [r \in Reqs |-> NoOptions]
    /\ remoteRes = [r \in Reqs |-> NoRes]
    /\ data = [r \in Reqs |-> <<>>]
    /\ calls = [r \in Reqs |-> NoCalls]
    /\ requestResult = [r \in Reqs |-> NoResult]
    /\ responseText = [r \in Reqs |-> <<>>]
    /\ patchedHeaders = [r \in Reqs |-> NoHeaders]
    /\ steps = [r \in Reqs |-> <<>>]
    /\ responsePatchingProvider \in ResponseProviders
    /\ fault = NoFault

Crashed == fault # NoFault

\* ------------------------------------------------------------- pure parts
\* Buffer.prototype.toString: bytes to text, byte by byte.
CharOf(b) == IF b = 72 THEN "<head>" ELSE "\\x1f"

toString(bytes) == [i \in 1..Len(bytes) |-> CharOf(bytes[i])]

\* zlib.unzip: a stream that does not open with the compression header is
\* an error; otherwise the payload behind the header is the result.
Unzip(bytes) ==
    IF Len(bytes) = 0 \/ bytes[1] # 31
    THEN [err |-> TRUE, result |-> <<>>]
    ELSE [err |-> FALSE, result |-> Tail(bytes)]

\* The same test with the deflate alternative forgotten.
NeedsUnzipGzipOnly(encoding) == encoding = "gzip"

\* The test of the 'end' handler that selects decompression.
NeedsUnzip(encoding) == encoding = "gzip" \/ encoding = "deflate"

\* text.replace(/(<head[^>]*>)/i, "$1" + "<script>..."): the first <head>
\* gets the script right behind it.
InjectScript(text) ==
    IF \E i \in 1..Len(text) : text[i] = "<head>"
    THEN LET i == CHOOSE k \in 1..Len(text) :
                      text[k] = "<head>" /\ \A j \in 1..(k - 1) : text[j] # "<head>"
         IN  SubSeq(text, 1, i) \o <<"<script>">> \o SubSeq(text, i + 1, Len(text))
    ELSE text

\* The text a responsePatchingProvider returns.
PatchText(provider, text) ==
    IF provider = "example" THEN InjectScript(text) ELSE text \o <<"patched">>

\* The header mapping as a responsePatchingProvider leaves it.
PatchHeaders(provider, headers) ==
    IF provider = "example" THEN headers ELSE [ce |-> "gzip", cl |-> "len"]

\* The header mapping as a requestPatchingProvider leaves it.
EditHeaders(edit, headers) ==
    CASE edit = "setAcceptEncoding" -> [headers EXCEPT !.ae = "identity"]
      [] edit = "addHeader" -> [headers EXCEPT !.x = "1"]
      [] OTHER -> headers

\* The header part of finalize without the delete of content-length.
FinalHeadersKeepLength(headers) == [headers EXCEPT !.ce = "identity"]

\* finalize, header part: content-encoding forced, content-length deleted.
FinalHeaders(headers) == [headers EXCEPT !.ce = "identity", !.cl = Absent]

\* The engine without its 'accept-encoding' override.
ForceAcceptEncodingMissing(headers) == headers

\* The 'accept-encoding' override of the engine.
ForceAcceptEncoding(headers) == [headers EXCEPT !.ae = "gzip, deflate"]

\* A loop test that only knows scheme-relative targets.
IsLoopSlashes(url) == StartsWith(url, <<"/", "/">>)

\* The test of the engine that rejects a request as an internal loop.
IsLoop(url) == ~StartsWith(url, <<"h", "t", "t", "p">>)

\* The switch with the Empty case breaking like the cases around it.
BranchEmptyFallsThrough(result) ==
    CASE result = Allow -> "pass"
      [] result = Empty -> "pass"
      [] result = Deny -> "pass"
      [] result = Redirect -> "pass"
      [] OTHER -> "throw"

\* The switch with a default case that lets the request pass.
BranchDefaultPasses(result) ==
    CASE result = Empty -> "empty"
      [] OTHER -> "pass"

\* The switch of the engine on requestResult.result.
Branch(result) ==
    CASE result = Allow -> "pass"
      [] result = Empty -> "empty"
      [] result = Deny -> "pass"
      [] result = Redirect -> "pass"
      [] OTHER -> "throw"

\* http.request / https.request accept only their own protocol (and take
\* a missing one as theirs); any other makes them throw.
Transport(protocol) ==
    IF protocol = <<"h", "t", "t", "p", "s", ":">> THEN "https" ELSE "http"

ProtocolAccepted(protocol) ==
    \/ protocol = <<>>
    \/ protocol = <<"h", "t", "t", "p", "s", ":">>
    \/ protocol = <<"h", "t", "t", "p", ":">>

\* ------------------------------------------------------------- client writes
\* localRes.writeHead(...); localRes.write(...); localRes.end() on a response
\* whose headers were not sent yet.  Nothing reaches a client that is gone.
Written(res, gone, status, message, headers, body) ==
    [headersSent |-> TRUE, finished |-> TRUE, statusCode |-> status,
     statusMessage |-> message, headers |-> headers, body |-> body,
     onWire |-> ~gone]

\* A terminal write of request r: the second writeHead on one response
\* throws, nobody catches it, and the uncaughtException handler re-throws.
Respond(r, status, message, headers, body) ==
    /\ IF localRes[r].headersSent
       THEN /\ fault' = [by |-> r, err |-> "headers already sent"]
            /\ localRes' = localRes
       ELSE /\ fault' = fault
            /\ localRes' = [localRes EXCEPT ![r] =
                    Written(@, localReq[r].aborted, status, message, headers, body)]

\* finalize writing the text it was given instead of the patched one.
finalizeUnpatched(r, text) ==
    /\ responseText' = [responseText EXCEPT ![r] = text]
    /\ remoteRes' = [remoteRes EXCEPT ![r].headers =
            FinalHeaders(PatchHeaders(responsePatchingProvider, @))]
    /\ Respond(r, remoteRes[r].statusCode, remoteRes[r].statusMessage,
               FinalHeaders(PatchHeaders(responsePatchingProvider, remoteRes[r].headers)),
               text)

\* finalize(localRes, remoteRes, url, responseText)
finalize(r, text) ==
    /\ responseText' = [responseText EXCEPT ![r] = text]
    /\ remoteRes' = [remoteRes EXCEPT ![r].headers =
            FinalHeaders(PatchHeaders(responsePatchingProvider, @))]
    /\ Respond(r, remoteRes[r].statusCode, remoteRes[r].statusMessage,
               FinalHeaders(PatchHeaders(responsePatchingProvider, remoteRes[r].headers)),
               PatchText(responsePatchingProvider, text))

\* ------------------------------------------------------------- the handler
\* engine(localReq, localRes): the synchronous part, up to its return or throw.
engine(r, url, headers, result, edit) ==
    /\ ~Crashed
    /\ phase[r] = "new"
    /\ UNCHANGED <<remoteRes, data, responseText, responsePatchingProvider>>
    /\ IF IsLoop(url)
       THEN /\ localReq' = [localReq EXCEPT ![r].url = url, ![r].headers = headers]
            /\ Respond(r, 400, "Bad Request", ServerHeaders, <<"internal request loop">>)
            /\ calls' = [calls EXCEPT ![r].writeHead = @ + 1]
            /\ phase' = [phase EXCEPT ![r] = "answered"]
            /\ steps' = [steps EXCEPT ![r] = @ \o <<"write">>]
            /\ UNCHANGED <<options, requestResult, patchedHeaders>>
       ELSE /\ localReq' = [localReq EXCEPT ![r].url = url,
                    ![r].headers = ForceAcceptEncoding(EditHeaders(edit, headers))]
            /\ requestResult' = [requestResult EXCEPT ![r] = result]
            /\ patchedHeaders' = [patchedHeaders EXCEPT ![r] = EditHeaders(edit, headers)]
            /\ CASE Branch(result) = "empty" ->
                      /\ Respond(r, 200, "OK", ServerHeaders, <<>>)
                      /\ calls' = [calls EXCEPT ![r].requestPatch = @ + 1,
                                                ![r].writeHead = @ + 1]
                      /\ phase' = [phase EXCEPT ![r] = "answered"]
                      /\ steps' = [steps EXCEPT ![r] =
                            @ \o <<"request-policy", "normalize", "write">>]
                      /\ UNCHANGED options
                 [] Branch(result) = "throw" ->
                      /\ fault' = [by |-> r, err |-> "Unexpected request result"]
                      /\ calls' = [calls EXCEPT ![r].requestPatch = @ + 1]
                      /\ phase' = [phase EXCEPT ![r] = "threw"]
                      /\ steps' = [steps EXCEPT ![r] = @ \o <<"request-policy", "normalize">>]
                      /\ UNCHANGED <<options, localRes>>
                 [] OTHER ->
                      /\ calls' = [calls EXCEPT ![r].requestPatch = @ + 1]
                      /\ UNCHANGED localRes
                      /\ IF ProtocolAccepted(UrlProtocol(url))
                         THEN /\ options' = [options EXCEPT ![r] =
                                    [protocol |-> UrlProtocol(url),
                                     transport |-> Transport(UrlProtocol(url)),
                                     headers |-> ForceAcceptEncoding(EditHeaders(edit, headers)),
                                     aborted |-> FALSE]]
                              /\ phase' = [phase EXCEPT ![r] = "waiting"]
                              /\ steps' = [steps EXCEPT ![r] =
                                    @ \o <<"request-policy", "normalize", "dispatch">>]
                              /\ UNCHANGED fault
                         ELSE /\ fault' = [by |-> r, err |-> "Protocol not supported"]
                              /\ phase' = [phase EXCEPT ![r] = "threw"]
                              /\ steps' = [steps EXCEPT ![r] = @ \o <<"request-policy", "normalize">>]
                              /\ UNCHANGED options

\* The callback of http(s).request: the upstream response object arrives and
\* the four handlers are registered on it.
onResponse(r, status, encoding, length) ==
    /\ ~Crashed
    /\ phase[r] = "waiting"
    /\ ~options[r].aborted
    /\ remoteRes' = [remoteRes EXCEPT ![r] =
            [statusCode |-> status, statusMessage |-> "Upstream Reason",
             headers |-> [ce |-> encoding, cl |-> length],
             rawHeaders |-> [ce |-> encoding, cl |-> length],
             errored |-> FALSE, aborted |-> FALSE]]
    /\ data' = [data EXCEPT ![r] = <<>>]
    /\ phase' = [phase EXCEPT ![r] = "streaming"]
    /\ UNCHANGED <<localReq, localRes, options, calls, requestResult, patchedHeaders,
                   responseText, steps, responsePatchingProvider, fault>>

\* A 'data' handler that forwards each chunk to the client as it comes.
onDataWritesThrough(r, chunk) ==
    /\ ~Crashed
    /\ phase[r] = "streaming"
    /\ ~options[r].aborted /\ ~remoteRes[r].errored /\ ~remoteRes[r].aborted
    /\ Len(data[r]) < MaxChunks
    /\ data' = [data EXCEPT ![r] = Append(@, chunk)]
    /\ steps' = [steps EXCEPT ![r] = Append(@, "accumulate")]
    /\ localRes' = [localRes EXCEPT ![r].headersSent = TRUE,
                                    ![r].body = Append(@, CharOf(chunk))]
    /\ UNCHANGED <<phase, localReq, options, remoteRes, calls, requestResult,
                   patchedHeaders, responseText, responsePatchingProvider, fault>>

\* remoteRes.on("data")
onData(r, chunk) ==
    /\ ~Crashed
    /\ phase[r] = "streaming"
    /\ ~options[r].aborted /\ ~remoteRes[r].errored /\ ~remoteRes[r].aborted
    /\ Len(data[r]) < MaxChunks
    /\ data' = [data EXCEPT ![r] = Append(@, chunk)]
    /\ steps' = [steps EXCEPT ![r] = Append(@, "accumulate")]
    /\ UNCHANGED <<phase, localReq, localRes, options, remoteRes, calls,
                   requestResult, patchedHeaders, responseText, responsePatchingProvider, fault>>

\* An 'end' handler whose identity call of finalize is not in an else.
onEndNoElse(r) ==
    /\ ~Crashed
    /\ phase[r] = "streaming"
    /\ ~remoteRes[r].errored
    /\ UNCHANGED <<localReq, options, data, requestResult, patchedHeaders,
                   responsePatchingProvider>>
    /\ phase' = [phase EXCEPT ![r] =
            IF NeedsUnzip(remoteRes[r].headers.ce) THEN "unzipping" ELSE "ended"]
    /\ finalize(r, toString(data[r]))
    /\ steps' = [steps EXCEPT ![r] =
          @ \o <<"decode", "response-policy", "finalize-headers", "write">>]
    /\ calls' = [calls EXCEPT ![r].responsePatch = @ + 1,
                              ![r].writeHead = @ + 1,
                              ![r].unzip = IF NeedsUnzip(remoteRes[r].headers.ce)
                                           THEN @ + 1 ELSE @]

\* remoteRes.on("end"); Node emits it after 'aborted' too, not after 'error'.
onEnd(r) ==
    /\ ~Crashed
    /\ phase[r] = "streaming"
    /\ ~remoteRes[r].errored
    /\ UNCHANGED <<localReq, options, data, requestResult, patchedHeaders, responsePatchingProvider>>
    /\ IF NeedsUnzip(remoteRes[r].headers.ce)
       THEN /\ phase' = [phase EXCEPT ![r] = "unzipping"]
            /\ calls' = [calls EXCEPT ![r].unzip = @ + 1]
            /\ steps' = [steps EXCEPT ![r] = Append(@, "decode")]
            /\ UNCHANGED <<localRes, remoteRes, responseText, fault>>
       ELSE /\ phase' = [phase EXCEPT ![r] = "ended"]
            /\ finalize(r, toString(data[r]))
            /\ steps' = [steps EXCEPT ![r] =
                  @ \o <<"decode", "response-policy", "finalize-headers", "write">>]
            /\ calls' = [calls EXCEPT ![r].responsePatch = @ + 1,
                                      ![r].writeHead = @ + 1]

\* An unzip callback that drops a decompression error.
onUnzipSwallowsError(r) ==
    /\ ~Crashed
    /\ phase[r] = "unzipping"
    /\ phase' = [phase EXCEPT ![r] = "ended"]
    /\ UNCHANGED <<localReq, options, data, requestResult, patchedHeaders,
                   responsePatchingProvider>>
    /\ IF Unzip(data[r]).err
       THEN UNCHANGED <<localRes, fault, calls, steps, remoteRes, responseText>>
       ELSE /\ finalize(r, toString(Unzip(data[r]).result))
            /\ steps' = [steps EXCEPT ![r] =
                  @ \o <<"response-policy", "finalize-headers", "write">>]
            /\ calls' = [calls EXCEPT ![r].responsePatch = @ + 1,
                                      ![r].writeHead = @ + 1]

\* The callback of zlib.unzip.
onUnzip(r) ==
    /\ ~Crashed
    /\ phase[r] = "unzipping"
    /\ phase' = [phase EXCEPT ![r] = "ended"]
    /\ UNCHANGED <<localReq, options, data, requestResult, patchedHeaders, responsePatchingProvider>>
    /\ IF Unzip(data[r]).err
       THEN /\ Respond(r, 500, "Data Stream Parse Error", ServerHeaders,
                       <<"data stream parsing error">>)
            /\ calls' = [calls EXCEPT ![r].writeHead = @ + 1]
            /\ steps' = [steps EXCEPT ![r] = Append(@, "write")]
            /\ UNCHANGED <<remoteRes, responseText>>
       ELSE /\ finalize(r, toString(Unzip(data[r]).result))
            /\ steps' = [steps EXCEPT ![r] =
                  @ \o <<"response-policy", "finalize-headers", "write">>]
            /\ calls' = [calls EXCEPT ![r].responsePatch = @ + 1,
                                      ![r].writeHead = @ + 1]

\* remoteRes.on("error")
onError(r) ==
    /\ ~Crashed
    /\ phase[r] = "streaming"
    /\ ~remoteRes[r].errored
    /\ remoteRes' = [remoteRes EXCEPT ![r].errored = TRUE]
    /\ Respond(r, 500, "Data Stream Read Error", ServerHeaders,
               <<"data stream read error">>)
    /\ calls' = [calls EXCEPT ![r].writeHead = @ + 1]
    /\ steps' = [steps EXCEPT ![r] = Append(@, "write")]
    /\ UNCHANGED <<phase, localReq, options, data, requestResult, patchedHeaders,
                   responseText, responsePatchingProvider>>

\* remoteRes.on("aborted")
onAborted(r) ==
    /\ ~Crashed
    /\ phase[r] = "streaming"
    /\ ~remoteRes[r].aborted
    /\ remoteRes' = [remoteRes EXCEPT ![r].aborted = TRUE]
    /\ Respond(r, 502, "Broken Pipe / Remote Server Disconnected", ServerHeaders,
               <<"remote server closed the connection">>)
    /\ calls' = [calls EXCEPT ![r].writeHead = @ + 1]
    /\ steps' = [steps EXCEPT ![r] = Append(@, "write")]
    /\ UNCHANGED <<phase, localReq, options, data, requestResult, patchedHeaders,
                   responseText, responsePatchingProvider>>

\* The upstream request emits 'error' (connect failure, or the socket hang up
\* that follows request.abort()) before any response: nothing listens for it.
onRequestError(r) ==
    /\ ~Crashed
    /\ phase[r] = "waiting"
    /\ fault' = [by |-> r, err |-> "Unhandled 'error' event"]
    /\ phase' = [phase EXCEPT ![r] = "failed"]
    /\ UNCHANGED <<localReq, localRes, options, remoteRes, data, calls,
                   requestResult, patchedHeaders, responseText, steps,
                   responsePatchingProvider>>

\* localReq.on("aborted", () => { request.abort(); })
onClientAborted(r) ==
    /\ ~Crashed
    /\ phase[r] \in {"waiting", "streaming", "unzipping"}
    /\ ~localReq[r].aborted
    /\ ~localRes[r].finished
    /\ localReq' = [localReq EXCEPT ![r].aborted = TRUE]
    /\ options' = [options EXCEPT ![r].aborted = TRUE]
    /\ UNCHANGED <<phase, localRes, remoteRes, data, calls, requestResult, patchedHeaders,
                   responseText, steps, responsePatchingProvider, fault>>

\* Upstream status lines the model draws from.
StatusCodes == {200, 404}

\* Everything that can happen to request r.
Handle(r) ==
    \/ \E url \in Urls, headers \in ClientHeaders,
          result \in PolicyResults, edit \in RequestEdits :
            engine(r, url, headers, result, edit)
    \/ \E status \in StatusCodes, encoding \in ContentEncodings,
          length \in ContentLengths :
            onResponse(r, status, encoding, length)
    \/ \E chunk \in Bytes : onData(r, chunk)
    \/ onEnd(r)
    \/ onUnzip(r)
    \/ onError(r)
    \/ onAborted(r)
    \/ onRequestError(r)
    \/ onClientAborted(r)

\* One request goes through the process, with every input and every order
\* of events; the other one is never received.
Next == Handle(1)

Spec == Init /\ [][Next]_vars

\* The same, with the zlib.unzip callback run once it is pending (the
\* thread pool and the event loop of Node get to it).
SpecLive == Init /\ [][Next]_vars /\ WF_vars(onUnzip(1))

\* Two requests in flight at once, each with a small choice of inputs.
FewUrls == {HttpUrl}
FewResults == {Allow, Empty}
FewEncodings == {Absent, "gzip"}

HandleFew(r) ==
    \/ \E url \in FewUrls, result \in FewResults :
            engine(r, url, [ae |-> Absent, x |-> Absent], result, "none")
    \/ \E encoding \in FewEncodings : onResponse(r, 200, encoding, Absent)
    \/ onData(r, 31)
    \/ onEnd(r)
    \/ onUnzip(r)
    \/ onError(r)
    \/ onAborted(r)
    \/ onRequestError(r)
    \/ onClientAborted(r)

NextTwo == \E r \in Reqs : HandleFew(r)

SpecTwo == Init /\ [][NextTwo]_vars

\* ------------------------------------------------------------- properties
\* The request is over: no event of it is still to come.
Over(r) == phase[r] \in {"answered", "threw", "ended", "failed"}

\* The client response of r is a finalized upstream response.
Finalized(r) == localRes[r].headersSent /\ "ce" \in DOMAIN localRes[r].headers

\* C1: every request gets exactly one terminal response: writeHead is never
\* called twice on one client response, and a request that is over has had
\* its one call (the throw on a policy result outside the enumeration, which
\* is meant to propagate, is left out).
C1_ExactlyOneTerminalWrite ==
    \A r \in Reqs :
        /\ calls[r].writeHead <= 1
        /\ (Over(r) /\ requestResult[r] # Unexpected) => calls[r].writeHead = 1

\* C2: once the client has disconnected, the upstream request is cancelled,
\* no writeHead is called on the client response and the request raises no
\* uncaught fault.
C2_NoWriteAfterClientAbort ==
    \A r \in Reqs :
        localReq[r].aborted =>
            /\ options[r].aborted
            /\ calls[r].writeHead = 0
            /\ fault.by # r

\* C3: when the upstream response has emitted 'aborted' before 'end', the
\* client response is the 502 one, written by the only writeHead call of the
\* request, with the fixed text as its whole body, whatever else happened.
C3_AbortGivesOne502 ==
    \A r \in Reqs :
        remoteRes[r].aborted =>
            /\ localRes[r].statusCode = 502
            /\ localRes[r].body = <<"remote server closed the connection">>
            /\ calls[r].writeHead = 1
            /\ fault.by # r

\* C4: an 'error' of the upstream request before any response exists ends
\* in a response to the client, not in an uncaught fault.
C4_TransportErrorsRecovered ==
    \A r \in Reqs :
        phase[r] = "failed" => localRes[r].finished /\ fault.by # r

\* C5: a request with a relative target is answered 400, once, and nothing
\* is dispatched upstream for it.
C5_RelativeUrlGets400 ==
    \A r \in Reqs :
        (phase[r] # "new" /\ ~IsAbsolute(localReq[r].url)) =>
            /\ localRes[r].finished
            /\ localRes[r].statusCode = 400
            /\ calls[r].writeHead = 1
            /\ options[r] = NoOptions
            /\ remoteRes[r] = NoRes
            /\ fault.by # r

C5_Witness ==
    /\ phase[1] = "answered"
    /\ localReq[1].url = RelUrl
    /\ localRes[1].statusCode = 400

\* C6: a request whose policy result is Empty is answered 200 with an empty
\* body, once, and nothing is dispatched upstream for it.
C6_EmptyGets200 ==
    \A r \in Reqs :
        requestResult[r] = Empty =>
            /\ localRes[r].finished
            /\ localRes[r].statusCode = 200
            /\ localRes[r].body = <<>>
            /\ calls[r].writeHead = 1
            /\ options[r] = NoOptions
            /\ remoteRes[r] = NoRes
            /\ fault.by # r

C6_Witness ==
    /\ requestResult[1] = Empty
    /\ phase[1] = "answered"
    /\ localRes[1].statusCode = 200

\* C7: a request whose policy result is Deny or Redirect raises no fault
\* and is terminated exactly once.
C7_DenyRedirectOnce ==
    \A r \in Reqs :
        requestResult[r] \in {Deny, Redirect} =>
            /\ fault.by # r
            /\ calls[r].writeHead <= 1
            /\ Over(r) => calls[r].writeHead = 1

\* C8: an upstream response that came gzip or deflate encoded, ended without
\* 'error' or 'aborted' and decompressed reaches the client with the
\* provider's patch of the decompressed text as body and content-encoding
\* identity.
C8_DecodedThenPatched ==
    \A r \in Reqs :
        ( /\ phase[r] = "ended"
          /\ remoteRes[r].rawHeaders.ce \in {"gzip", "deflate"}
          /\ ~remoteRes[r].aborted /\ ~remoteRes[r].errored
          /\ ~Unzip(data[r]).err ) =>
            /\ Finalized(r)
            /\ localRes[r].body =
                   PatchText(responsePatchingProvider, toString(Unzip(data[r]).result))
            /\ localRes[r].headers.ce = "identity"

C8_Witness ==
    /\ phase[1] = "ended"
    /\ remoteRes[1].rawHeaders.ce = "deflate"
    /\ ~remoteRes[1].aborted /\ ~remoteRes[1].errored
    /\ data[1] = <<31, 72>>
    /\ responsePatchingProvider = "example"
    /\ localRes[1].body = <<"<head>", "<script>">>

\* C9: zlib.unzip is called exactly when the content-encoding that arrived
\* is gzip or deflate; with any other one, or none, it is never called and
\* the provider gets the accumulated bytes as text.
C9_UnzipOnlyForGzipDeflate ==
    \A r \in Reqs :
        phase[r] \in {"unzipping", "ended"} =>
            LET encoding == remoteRes[r].rawHeaders.ce IN
            /\ calls[r].unzip = 1 <=> (encoding = "gzip" \/ encoding = "deflate")
            /\ (encoding # "gzip" /\ encoding # "deflate") =>
                  /\ calls[r].unzip = 0
                  /\ calls[r].responsePatch = 1
                  /\ responseText[r] = toString(data[r])

C9_Witness ==
    /\ phase[1] = "ended"
    /\ remoteRes[1].rawHeaders.ce = "br"
    /\ data[1] = <<31, 72>>
    /\ calls[1].unzip = 0
    /\ responseText[1] = <<"\\x1f", "<head>">>

\* C10: a finalized upstream response has no content-length and has
\* content-encoding identity, whatever came from upstream and whatever the
\* provider did to the two headers.
C10_EngineOwnedHeaders ==
    \A r \in Reqs :
        Finalized(r) =>
            /\ localRes[r].headers.cl = Absent
            /\ localRes[r].headers.ce = "identity"

C10_Witness ==
    /\ Finalized(1)
    /\ responsePatchingProvider = "editsHeaders"
    /\ remoteRes[1].rawHeaders = [ce |-> Absent, cl |-> "len"]

\* The order the steps of one request are to be taken in.
StepOrder == <<"request-policy", "normalize", "dispatch", "accumulate", "decode",
               "response-policy", "finalize-headers", "write">>

Rank(step) == CHOOSE i \in 1..Len(StepOrder) : StepOrder[i] = step

\* C11: the steps of a request are taken in the order request-policy,
\* normalize, dispatch, accumulate, decode, response-policy,
\* finalize-headers, write: no step is followed by a step that comes before
\* it in that order.
C11_StepsInOrder ==
    \A r \in Reqs :
        \A i, j \in 1..Len(steps[r]) :
            i < j => Rank(steps[r][i]) <= Rank(steps[r][j])

\* C12: a request that is in flight and has no response yet is never left
\* in a process that another request's fault has ended (a policy result
\* outside the enumeration, which is meant to end the process, left out).
C12_NotCutOffByOtherRequest ==
    \A b \in Reqs :
        ( /\ phase[b] \in {"waiting", "streaming", "unzipping"}
          /\ ~localRes[b].finished ) =>
            \/ fault.by \in {0, b}
            \/ fault.err = "Unexpected request result"

\* C13: the header mapping given to http(s).request is the one the request
\* provider left, with accept-encoding set to "gzip, deflate".
C13_OutboundHeaders ==
    \A r \in Reqs :
        options[r] # NoOptions =>
            /\ options[r].headers = [patchedHeaders[r] EXCEPT !.ae = "gzip, deflate"]
            /\ options[r].headers = localReq[r].headers

C13_Witness ==
    /\ phase[1] = "waiting"
    /\ patchedHeaders[1] = [ae |-> "identity", x |-> Absent]
    /\ options[1].headers.ae = "gzip, deflate"

\* C14: the request provider and the response provider are each called at
\* most once for a request.
C14_HooksAtMostOnce ==
    \A r \in Reqs :
        calls[r].requestPatch <= 1 /\ calls[r].responsePatch <= 1

C14_Witness ==
    /\ phase[1] = "ended"
    /\ remoteRes[1].aborted
    /\ remoteRes[1].rawHeaders.ce = "gzip"
    /\ calls[1].requestPatch = 1
    /\ calls[1].responsePatch = 1

\* C15: on a policy result outside the enumeration the engine throws out of
\* the handler, writes nothing and dispatches nothing upstream.
C15_UnexpectedResultThrows ==
    \A r \in Reqs :
        requestResult[r] \notin {NoResult, Allow, Empty, Deny, Redirect} =>
            /\ fault = [by |-> r, err |-> "Unexpected request result"]
            /\ phase[r] = "threw"
            /\ options[r] = NoOptions
            /\ remoteRes[r] = NoRes
            /\ calls[r].writeHead = 0

C15_Witness ==
    /\ requestResult[1] = Unexpected
    /\ localReq[1].url = HttpUrl
    /\ fault.by = 1

\* C16: when the decompression of a gzip or deflate body has failed, the
\* client response is the 500 "Data Stream Parse Error" one with its fixed
\* body, the request raised no fault and the response provider was not
\* called.
C16_ParseErrorGets500 ==
    \A r \in Reqs :
        ( /\ phase[r] = "ended"
          /\ remoteRes[r].rawHeaders.ce \in {"gzip", "deflate"}
          /\ Unzip(data[r]).err ) =>
            /\ localRes[r].statusCode = 500
            /\ localRes[r].statusMessage = "Data Stream Parse Error"
            /\ localRes[r].body = <<"data stream parsing error">>
            /\ calls[r].responsePatch = 0
            /\ fault.by # r

\* C17: once the upstream response has emitted 'error', the client response
\* is the 500 "Data Stream Read Error" one, written by the only writeHead
\* call of the request, and nothing is decoded or finalized.
C17_ReadErrorGets500AndStops ==
    \A r \in Reqs :
        remoteRes[r].errored =>
            /\ localRes[r].statusCode = 500
            /\ localRes[r].statusMessage = "Data Stream Read Error"
            /\ localRes[r].body = <<"data stream read error">>
            /\ calls[r].writeHead = 1
            /\ calls[r].unzip = 0
            /\ calls[r].responsePatch = 0
            /\ fault.by # r

\* C18: before the upstream response has emitted 'end', 'error' or
\* 'aborted' nothing is written to the client and nothing is decoded or
\* patched; zlib.unzip and the response provider run only after 'end'.
C18_BufferedBeforeAnyWrite ==
    \A r \in Reqs :
        /\ ( /\ phase[r] \in {"waiting", "streaming"}
             /\ ~remoteRes[r].errored /\ ~remoteRes[r].aborted ) =>
                /\ ~localRes[r].headersSent
                /\ localRes[r].body = <<>>
                /\ calls[r].writeHead = 0
                /\ calls[r].unzip = 0
                /\ calls[r].responsePatch = 0
        /\ (calls[r].unzip > 0 \/ calls[r].responsePatch > 0) =>
                phase[r] \in {"unzipping", "ended"}

C18_Witness ==
    /\ phase[1] = "streaming"
    /\ data[1] = <<31, 72>>
    /\ remoteRes[1].rawHeaders.ce = "gzip"
    /\ ~localRes[1].headersSent

\* C19: a request whose policy result is Deny or Redirect is answered by
\* the engine itself and is not dispatched upstream.
C19_DenyRedirectNotProxied ==
    \A r \in Reqs :
        requestResult[r] \in {Deny, Redirect} =>
            /\ options[r] = NoOptions
            /\ phase[r] \notin {"waiting", "streaming", "unzipping", "ended"}
            /\ Over(r) => localRes[r].finished

\* The upstream of r has given its terminal signal: 'end', 'error' or 'aborted'.
TerminalSignal(r) ==
    \/ phase[r] \in {"unzipping", "ended"}
    \/ remoteRes[r].errored
    \/ remoteRes[r].aborted

====
